---- MODULE Spec2Model ----
(***************************************************************************)
(* Weighted consistent-hashing ring (package hashring), with the hybrid     *)
(* logical clock (package hlc) and the key/value store (package kvdemo)    *)
(* that accompany it.                                                      *)
(*                                                                         *)
(* Strings (Node names, keys, virtual-node identities) are sequences of    *)
(* byte codes, so that string(n) + "-" + strconv.Itoa(i) and the hashers   *)
(* are computed, not assumed.  Go maps are functions; a missing key reads  *)
(* as the zero value.  Go slices are sequences; Go index j is j + 1 here.  *)
(***************************************************************************)
EXTENDS Integers, Sequences, FiniteSets, TLC

\* ------------------------------------------------------------------ bounds
MaxVirts == 2       \* WithVirtualNodes(n) is drawn from 1..MaxVirts
MaxWeight == 2      \* AddNodeWeighted weights are drawn from 1..MaxWeight
MaxRing == 4        \* an add is started only if its points fit in MaxRing
MaxReplicas == 3    \* GetNodes replica counts are drawn from -1..MaxReplicas
NumThreads == 2     \* the threads calling into one HashRing concurrently
ConcMaxRing == 2    \* as MaxRing, for the calls made concurrently
DigestSpace == 1    \* the number of digests the narrow Hasher returns
MaxIndex == 3       \* the virtual-node index up to which a retry loop is followed
MaxWall == 2        \* unixMillis() returns a reading in 1..MaxWall
MaxCalls == 4       \* the Now and Update calls made on one Clock
NumStores == 2      \* the Store replicas
MaxValues == 2      \* the values that the replicas Apply

\* -------------------------------------------------------------- the inputs
\* Node("") : the zero Node, returned by GetNode on an empty ring
EmptyNode == <<>>

\* the nodes "A", "B", "C"
Nodes == {<<65>>, <<66>>, <<67>>}

\* the keys "k1", "k2", "k3", "k4", "k6"
Keys == {<<107, 49>>, <<107, 50>>, <<107, 51>>, <<107, 52>>, <<107, 54>>}

Weights == 1..MaxWeight

Replicas == (-1)..MaxReplicas

\* the Hasher implementations plugged in with WithHasher
Hashers == {"sum", "scenario"}

\* hasher, virts, nodes, ring, nodeMap : the fields of the HashRing
\* mu        : the state of h.mu (sync.RWMutex)
\* thr       : for each thread, the frame of the call it is in
\* last      : the last call that returned, when calls are made one at a time
\* committed : nodes, ring and nodeMap as the last completed mutation left them
\* clock     : the fields of one hlc.Clock
\* issued    : the Timestamps that Now has returned on the clock, in order
\* calls     : the number of Now and Update calls made on the clock
\* storeData : for each kvdemo.Store, its data map
\* pending   : for each kvdemo.Store, the (key, Value) pairs still to Apply
VARIABLES hasher, virts, nodes, ring, nodeMap, mu, thr, last, committed,
          clock, issued, calls, storeData, pending

ringVars == <<hasher, virts, nodes, ring, nodeMap, mu, thr, last, committed>>

clockVars == <<clock, issued, calls>>

storeVars == <<storeData, pending>>

vars == <<hasher, virts, nodes, ring, nodeMap, mu, thr, last, committed,
          clock, issued, calls, storeData, pending>>

\* ------------------------------------------------------------ Go built-ins
\* m[k] on a map[..]Node : the zero Node when k is missing
MapGet(m, k) == IF k \in DOMAIN m THEN m[k] ELSE EmptyNode

\* m[k] = v
MapPut(m, k, v) == [x \in DOMAIN m \cup {k} |-> IF x = k THEN v ELSE m[x]]

\* delete(m, k)
MapDelete(m, k) == [x \in DOMAIN m \ {k} |-> m[x]]

\* a min that returns its first argument whatever the second
MinOfFirst(a, b) == a

Min(a, b) == IF a < b THEN a ELSE b

\* strconv.Itoa
RECURSIVE Itoa(_)
Itoa(i) ==
    IF i < 0 THEN <<45>> \o Itoa(-i)
    ELSE IF i < 10 THEN <<48 + i>>
    ELSE Itoa(i \div 10) \o <<48 + (i % 10)>>

\* string(n) + "-" + strconv.Itoa(i)
VirtualNodeKey(n, i) == n \o <<45>> \o Itoa(i)

\* ---------------------------------------------------------------- hashers
\* a Hasher that adds up the bytes: collides often ("A-1" and "B-0")
RECURSIVE ByteSum(_)
ByteSum(data) == IF data = <<>> THEN 0 ELSE Head(data) + ByteSum(Tail(data))

\* a Hasher that weighs each byte by its position: "A-i", "B-i", "C-i"
\* interleave without colliding
RECURSIVE PosSum(_, _)
PosSum(data, k) ==
    IF data = <<>> THEN 0 ELSE k * Head(data) + PosSum(Tail(data), k + 1)

\* the fixed digests of the reference scenario:
\* "A-0" -> 10, "B-0" -> 30, "C-0" -> 50, "k1" -> 5, "k2" -> 25, "k3" -> 45, "k4" -> 55
ScenarioTable ==
    (<<65, 45, 48>> :> 10) @@ (<<66, 45, 48>> :> 30) @@ (<<67, 45, 48>> :> 50) @@
    (<<107, 49>> :> 5) @@ (<<107, 50>> :> 25) @@ (<<107, 51>> :> 45) @@ (<<107, 52>> :> 55)

\* Hasher.Sum32 of the hasher named hr; the "narrow" Hasher folds the byte
\* sum into DigestSpace digests
Sum32(hr, data) ==
    IF hr = "sum" THEN ByteSum(data)
    ELSE IF hr = "narrow" THEN ByteSum(data) % DigestSpace
    ELSE IF data \in DOMAIN ScenarioTable THEN ScenarioTable[data]
    ELSE PosSum(data, 1)

\* HashRing.hash
hash(key) == Sum32(hasher, key)

\* ------------------------------------------------------------ sort package
\* sort.Search(len(r), func(j) bool { return r[j] >= point }) : binary search
RECURSIVE SearchFrom(_, _, _, _)
SearchFrom(r, point, i, j) ==
    IF i < j
    THEN LET h == (i + j) \div 2
         IN  IF ~(r[h + 1] >= point)
             THEN SearchFrom(r, point, h + 1, j)
             ELSE SearchFrom(r, point, i, h)
    ELSE i

\* a search that tests r[j] > point where the code tests r[j] >= point
SearchRingStrict(r, point) == Cardinality({j \in 1..Len(r) : r[j] <= point})

SearchRing(r, point) == SearchFrom(r, point, 0, Len(r))

RECURSIVE InsertSorted(_, _)
InsertSorted(s, x) ==
    IF s = <<>> THEN <<x>>
    ELSE IF x < Head(s) THEN <<x>> \o s
    ELSE <<Head(s)>> \o InsertSorted(Tail(s), x)

\* a sort that leaves r[0] where it is and sorts the rest
RECURSIVE SortRest(_)
SortRest(r) == IF r = <<>> THEN <<>> ELSE InsertSorted(SortRest(Tail(r)), Head(r))

SortSliceFromSecond(r) == IF r = <<>> THEN <<>> ELSE <<Head(r)>> \o SortRest(Tail(r))

\* sort.Slice(r, func(i, j) bool { return r[i] < r[j] })
RECURSIVE SortSlice(_)
SortSlice(r) == IF r = <<>> THEN <<>> ELSE InsertSorted(SortSlice(Tail(r)), Head(r))

\* ------------------------------------------------------------- ring state
\* the three fields of a HashRing a mutation writes, as one value
Heap == [nodes |-> nodes, ring |-> ring, nodeMap |-> nodeMap]

EmptyHeap == [nodes |-> <<>>, ring |-> <<>>, nodeMap |-> <<>>]

\* --------------------------------------------------------- a call's frame
\* the arguments, locals and position of one call of a HashRing method
Frame(op, n, weight, key, replicas, pc) ==
    [op |-> op, n |-> n, weight |-> weight, key |-> key, replicas |-> replicas,
     pc |-> pc, total |-> 0, i |-> 0, point |-> 0,
     newRing |-> <<>>, newMap |-> <<>>, node |-> EmptyNode, out |-> <<>>]

\* ------------------------------------------------------- AddNodeWeighted
\* an add that keeps the weight a node already has
AddSetWeightIfAbsent(h, f) ==
    [h |-> [h EXCEPT !.nodes = IF f.n \in DOMAIN h.nodes THEN h.nodes
                                ELSE MapPut(h.nodes, f.n, f.weight)],
     f |-> [f EXCEPT !.total = virts * f.weight, !.i = 0, !.pc = "aw_loop"]]

\* h.nodes[n] = weight ; total := h.virts * weight ; i := 0
AddSetWeight(h, f) ==
    [h |-> [h EXCEPT !.nodes = MapPut(h.nodes, f.n, f.weight)],
     f |-> [f EXCEPT !.total = virts * f.weight, !.i = 0, !.pc = "aw_loop"]]

\* a loop that stops one candidate early: i < total - 1
AddLoopTestOneFewer(h, f) ==
    [h |-> h, f |-> [f EXCEPT !.pc = IF f.i < f.total - 1 THEN "aw_probe" ELSE "aw_sort"]]

\* for ... ; i < total ; ...
AddLoopTest(h, f) ==
    [h |-> h, f |-> [f EXCEPT !.pc = IF f.i < f.total THEN "aw_probe" ELSE "aw_sort"]]

\* a probe that, on a collision, gives the colliding point to n
AddProbeOverwrite(h, f) ==
    LET point == hash(VirtualNodeKey(f.n, f.i))
    IN  IF point \notin DOMAIN h.nodeMap
        THEN [h |-> h, f |-> [f EXCEPT !.point = point, !.pc = "aw_append"]]
        ELSE [h |-> h, f |-> [f EXCEPT !.point = point, !.pc = "aw_owner"]]

\* a probe that, on a collision, takes the colliding point off the ring
AddProbeEvict(h, f) ==
    LET point == hash(VirtualNodeKey(f.n, f.i))
    IN  IF point \notin DOMAIN h.nodeMap
        THEN [h |-> h, f |-> [f EXCEPT !.point = point, !.pc = "aw_append"]]
        ELSE [h |-> [h EXCEPT !.ring = SelectSeq(h.ring, LAMBDA d : d # point),
                              !.nodeMap = MapDelete(h.nodeMap, point)],
              f |-> [f EXCEPT !.point = point, !.i = f.i + 1]]

\* point := h.hash(...) ; if _, exists := h.nodeMap[point]; !exists {...} ; i++
AddProbe(h, f) ==
    LET point == hash(VirtualNodeKey(f.n, f.i))
    IN  IF point \notin DOMAIN h.nodeMap
        THEN [h |-> h, f |-> [f EXCEPT !.point = point, !.pc = "aw_append"]]
        ELSE [h |-> h, f |-> [f EXCEPT !.point = point, !.i = f.i + 1]]

\* h.ring = append(h.ring, point)
AddAppend(h, f) ==
    [h |-> [h EXCEPT !.ring = Append(h.ring, f.point)],
     f |-> [f EXCEPT !.pc = "aw_owner"]]

\* h.nodeMap[point] = n ; break ; then the outer loop's i++
AddSetOwner(h, f) ==
    [h |-> [h EXCEPT !.nodeMap = MapPut(h.nodeMap, f.point, f.n)],
     f |-> [f EXCEPT !.i = f.i + 1, !.pc = "aw_loop"]]

\* an add that returns without sorting the ring
AddSortSkipped(h, f) == [h |-> h, f |-> [f EXCEPT !.pc = "aw_unlock"]]

\* sort.Slice(h.ring, ...)
AddSort(h, f) ==
    [h |-> [h EXCEPT !.ring = SortSlice(h.ring)],
     f |-> [f EXCEPT !.pc = "aw_unlock"]]

\* one step of AddNodeWeighted between Lock and Unlock
AddStep(h, f) ==
    CASE f.pc = "aw_weight" -> AddSetWeight(h, f)
      [] f.pc = "aw_loop"   -> AddLoopTest(h, f)
      [] f.pc = "aw_probe"  -> AddProbe(h, f)
      [] f.pc = "aw_append" -> AddAppend(h, f)
      [] f.pc = "aw_owner"  -> AddSetOwner(h, f)
      [] f.pc = "aw_sort"   -> AddSort(h, f)

\* ------------------------------------------------------------ RemoveNode
\* a removal that leaves the weight entry of n in h.nodes
RemoveDeleteSkipped(h, f) == [h |-> h, f |-> [f EXCEPT !.pc = "rm_scan"]]

\* delete(h.nodes, n)
RemoveDelete(h, f) ==
    [h |-> [h EXCEPT !.nodes = MapDelete(h.nodes, f.n)],
     f |-> [f EXCEPT !.pc = "rm_scan"]]

\* a scan that, having dropped a point of n, skips the point after it as well
RECURSIVE RemoveScanDropNext(_, _, _, _, _)
RemoveScanDropNext(h, n, k, newRing, newMap) ==
    IF k > Len(h.ring) THEN [newRing |-> newRing, newMap |-> newMap]
    ELSE LET p == h.ring[k]
         IN  IF MapGet(h.nodeMap, p) # n
             THEN RemoveScanDropNext(h, n, k + 1, Append(newRing, p),
                                     MapPut(newMap, p, MapGet(h.nodeMap, p)))
             ELSE RemoveScanDropNext(h, n, k + 2, newRing, newMap)

\* a scan that keeps the first point of the ring, whoever owns it
RECURSIVE RemoveScanKeepFirst(_, _, _, _, _)
RemoveScanKeepFirst(h, n, k, newRing, newMap) ==
    IF k > Len(h.ring) THEN [newRing |-> newRing, newMap |-> newMap]
    ELSE LET p == h.ring[k]
         IN  IF MapGet(h.nodeMap, p) # n \/ k = 1
             THEN RemoveScanKeepFirst(h, n, k + 1, Append(newRing, p),
                                      MapPut(newMap, p, MapGet(h.nodeMap, p)))
             ELSE RemoveScanKeepFirst(h, n, k + 1, newRing, newMap)

\* for _, p := range h.ring { if h.nodeMap[p] != n { append ; newMap[p] = ... } }
RECURSIVE RemoveScanFrom(_, _, _, _, _)
RemoveScanFrom(h, n, k, newRing, newMap) ==
    IF k > Len(h.ring) THEN [newRing |-> newRing, newMap |-> newMap]
    ELSE LET p == h.ring[k]
         IN  IF MapGet(h.nodeMap, p) # n
             THEN RemoveScanFrom(h, n, k + 1, Append(newRing, p),
                                 MapPut(newMap, p, MapGet(h.nodeMap, p)))
             ELSE RemoveScanFrom(h, n, k + 1, newRing, newMap)

\* a scan that keeps the points of n and drops all the others
RemoveScanInverted(h, f) ==
    [h |-> h,
     f |-> [f EXCEPT !.newRing = SelectSeq(h.ring, LAMBDA p : MapGet(h.nodeMap, p) = f.n),
                     !.newMap = [p \in {d \in DOMAIN h.nodeMap : h.nodeMap[d] = f.n} |-> f.n],
                     !.pc = "rm_ring"]]

RemoveScan(h, f) ==
    LET kept == RemoveScanFrom(h, f.n, 1, <<>>, <<>>)
    IN  [h |-> h,
         f |-> [f EXCEPT !.newRing = kept.newRing, !.newMap = kept.newMap,
                         !.pc = "rm_ring"]]

\* a removal that returns without replacing h.ring
RemoveSetRingSkipped(h, f) == [h |-> h, f |-> [f EXCEPT !.pc = "rm_map"]]

\* h.ring = newRing
RemoveSetRing(h, f) ==
    [h |-> [h EXCEPT !.ring = f.newRing], f |-> [f EXCEPT !.pc = "rm_map"]]

\* a removal that returns without replacing h.nodeMap
RemoveSetMapSkipped(h, f) == [h |-> h, f |-> [f EXCEPT !.pc = "rm_unlock"]]

\* h.nodeMap = newMap
RemoveSetMap(h, f) ==
    [h |-> [h EXCEPT !.nodeMap = f.newMap], f |-> [f EXCEPT !.pc = "rm_unlock"]]

\* one step of RemoveNode between Lock and Unlock
RemoveStep(h, f) ==
    CASE f.pc = "rm_delete" -> RemoveDelete(h, f)
      [] f.pc = "rm_scan"   -> RemoveScan(h, f)
      [] f.pc = "rm_ring"   -> RemoveSetRing(h, f)
      [] f.pc = "rm_map"    -> RemoveSetMap(h, f)

\* ------------------------------------------------ a mutation run to its end
MutationStep(h, f) == IF f.op = "RemoveNode" THEN RemoveStep(h, f) ELSE AddStep(h, f)

AtUnlock(f) == f.pc \in {"aw_unlock", "rm_unlock"}

\* the ring state a mutation leaves when it runs from f to its deferred Unlock
RECURSIVE RunToUnlock(_, _)
RunToUnlock(h, f) ==
    IF AtUnlock(f) THEN h
    ELSE CHOOSE r \in {RunToUnlock(s.h, s.f) : s \in {MutationStep(h, f)}} : TRUE

AddNodeWeightedRun(h, n, weight) ==
    RunToUnlock(h, Frame("AddNodeWeighted", n, weight, <<>>, 0, "aw_weight"))

RemoveNodeRun(h, n) ==
    RunToUnlock(h, Frame("RemoveNode", n, 0, <<>>, 0, "rm_delete"))

\* --------------------------------------------------------------- lookups
\* a GetNode that returns the key as a Node where the code returns ""
GetNodeNoSentinel(h, key) ==
    IF Len(h.ring) = 0 THEN key
    ELSE LET point == hash(key)
             found == SearchRing(h.ring, point)
             i     == IF found = Len(h.ring) THEN 0 ELSE found
         IN  MapGet(h.nodeMap, h.ring[i + 1])

\* the body of GetNode under the read lock
GetNodeResult(h, key) ==
    IF Len(h.ring) = 0 THEN EmptyNode
    ELSE LET point == hash(key)
             found == SearchRing(h.ring, point)
             i     == IF found = Len(h.ring) THEN 0 ELSE found
         IN  MapGet(h.nodeMap, h.ring[i + 1])

\* a walk that appends the owner of every point it meets, seen or not
RECURSIVE GetNodesWalkNoDedup(_, _, _, _, _, _)
GetNodesWalkNoDedup(h, i, out, seen, max, steps) ==
    IF ~(Len(out) < max) THEN [returns |-> TRUE, nodes |-> out]
    ELSE IF steps >= Len(h.ring) THEN [returns |-> FALSE, nodes |-> out]
    ELSE GetNodesWalkNoDedup(h, (i + 1) % Len(h.ring),
                             Append(out, MapGet(h.nodeMap, h.ring[i + 1])),
                             seen, max, steps + 1)

\* for len(nodes) < max { ... ; i = (i + 1) % len(h.ring) }
\* A walk that has gone once round the ring without filling max slots has
\* seen every owner and never ends: returns |-> FALSE.
RECURSIVE GetNodesWalk(_, _, _, _, _, _)
GetNodesWalk(h, i, out, seen, max, steps) ==
    IF ~(Len(out) < max) THEN [returns |-> TRUE, nodes |-> out]
    ELSE IF steps >= Len(h.ring) THEN [returns |-> FALSE, nodes |-> out]
    ELSE LET n == MapGet(h.nodeMap, h.ring[i + 1])
             next == (i + 1) % Len(h.ring)
         IN  IF n \notin seen
             THEN GetNodesWalk(h, next, Append(out, n), seen \cup {n}, max, steps + 1)
             ELSE GetNodesWalk(h, next, out, seen, max, steps + 1)

\* a replica selection that starts its walk at ring[0], not at the key
GetNodesFromZero(h, key, replicas) ==
    IF Len(h.ring) = 0 \/ replicas <= 0 THEN [returns |-> TRUE, nodes |-> <<>>]
    ELSE GetNodesWalk(h, 0, <<>>, {}, Min(replicas, Cardinality(DOMAIN h.nodes)), 0)

\* a replica selection that returns nil for replicas <= 1, not only <= 0
GetNodesNilForOne(h, key, replicas) ==
    IF Len(h.ring) = 0 \/ replicas <= 1 THEN [returns |-> TRUE, nodes |-> <<>>]
    ELSE LET max   == Min(replicas, Cardinality(DOMAIN h.nodes))
             point == hash(key)
             found == SearchRing(h.ring, point)
             i     == IF found = Len(h.ring) THEN 0 ELSE found
         IN  GetNodesWalk(h, i, <<>>, {}, max, 0)

\* the body of GetNodes under the read lock
GetNodesResult(h, key, replicas) ==
    IF Len(h.ring) = 0 \/ replicas <= 0 THEN [returns |-> TRUE, nodes |-> <<>>]
    ELSE LET max   == Min(replicas, Cardinality(DOMAIN h.nodes))
             point == hash(key)
             found == SearchRing(h.ring, point)
             i     == IF found = Len(h.ring) THEN 0 ELSE found
         IN  GetNodesWalk(h, i, <<>>, {}, max, 0)

\* ------------------------------------------------- the calls, one at a time
\* the last call that returned: its arguments, what it returned, and the ring
\* state it started from
Returned(op, n, weight, key, replicas, node, out, pre) ==
    [op |-> op, n |-> n, weight |-> weight, key |-> key, replicas |-> replicas,
     node |-> node, out |-> out, pre |-> pre]

\* ----------------------------------------------------------------- h.mu
Threads == 1..NumThreads

\* a sync.RWMutex: the thread holding it for writing (0: none) and the
\* threads holding it for reading
Unlocked == [writer |-> 0, readers |-> {}]

\* a write lock that is granted while lookups hold the lock for reading
CanLockDespiteReaders(m) == m.writer = 0

\* h.mu.Lock() returns only when no thread holds the lock
CanLock(m) == m.writer = 0 /\ m.readers = {}

\* a read lock that is granted while a mutation holds the lock
CanRLockAlways(m) == TRUE

\* h.mu.RLock() returns only when no thread holds the lock for writing
CanRLock(m) == m.writer = 0

\* a thread that is in no call
Idle == Frame("idle", EmptyNode, 0, <<>>, 0, "idle")

\* ------------------------------------------------------------ package hlc
\* the largest uint16: Timestamp.Logical and Clock.logical wrap beyond it
MaxUint16 == 65535

\* New's default for Config.MaxClockDriftMillis
DefaultDriftMillis == 5

\* a uint16 result of arithmetic
Uint16(x) == x % (MaxUint16 + 1)

\* the built-in max on int64
Max(a, b) == IF a > b THEN a ELSE b

maxUint16(a, b) == IF a > b THEN a ELSE b

\* Timestamp{Physical, Logical, Uncertainty}
Timestamp(physical, logical, uncertainty) ==
    [Physical |-> physical, Logical |-> logical, Uncertainty |-> uncertainty]

\* hlc.New(Config{MaxClockDriftMillis: drift})
NewClock(drift) ==
    LET cfg == IF drift = 0 THEN DefaultDriftMillis ELSE drift
    IN  [physical |-> 0, logical |-> 0, uncertainty |-> cfg, cfg |-> cfg]

\* the fields of the Clock c after Now, unixMillis() having returned now
NowState(c, now) ==
    IF now > c.physical
    THEN [c EXCEPT !.physical = now, !.logical = 0, !.uncertainty = c.cfg]
    ELSE [c EXCEPT !.logical = Uint16(c.logical + 1), !.uncertainty = c.cfg]

\* the Timestamp that Now returns
NowResult(c) == Timestamp(c.physical, c.logical, c.uncertainty)

\* the fields of the Clock c after Update(remote, rttMillis), unixMillis()
\* having returned now
UpdateState(c, remote, rttMillis, now) ==
    LET maxPhysical == Max(c.physical, Max(remote.Physical, now))
        logical ==
            IF maxPhysical = c.physical /\ maxPhysical = remote.Physical
            THEN Uint16(maxUint16(c.logical, remote.Logical) + 1)
            ELSE IF maxPhysical = c.physical THEN Uint16(c.logical + 1)
            ELSE IF maxPhysical = remote.Physical THEN Uint16(remote.Logical + 1)
            ELSE 0
        remoteUncertainty == remote.Uncertainty + (rttMillis \div 2)
    IN  [c EXCEPT !.physical = maxPhysical,
                  !.logical = logical,
                  !.uncertainty = Max(c.uncertainty, remoteUncertainty)]

DefinitelyAfter(ts1, ts2) ==
    IF ts1.Physical > ts2.Physical + ts2.Uncertainty THEN TRUE
    ELSE IF ts1.Physical = ts2.Physical /\ ts1.Logical > ts2.Logical THEN TRUE
    ELSE FALSE

\* --------------------------------------------------------- package kvdemo
\* Value{Data, TS}
Value(d, ts) == [Data |-> d, TS |-> ts]

\* the data map of a Store after Apply(key, val)
StoreApply(d, key, val) ==
    IF key \notin DOMAIN d \/ DefinitelyAfter(val.TS, d[key].TS)
    THEN MapPut(d, key, val)
    ELSE d

\* the Store replicas
Stores == 1..NumStores

\* no Clock in use: a Clock as New(Config{}) returns it, never called
ClockUnused ==
    /\ clock = NewClock(0)
    /\ issued = <<>>
    /\ calls = 0

\* no Store in use: NewStore() for each replica, nothing to Apply
StoresUnused ==
    /\ storeData = [r \in Stores |-> <<>>]
    /\ pending = [r \in Stores |-> {}]

\* New(WithHasher(..), WithVirtualNodes(..))
Init ==
    /\ ClockUnused
    /\ StoresUnused
    /\ hasher \in Hashers
    /\ virts \in 1..MaxVirts
    /\ nodes = <<>>
    /\ ring = <<>>
    /\ nodeMap = <<>>
    /\ mu = Unlocked
    /\ thr = [t \in Threads |-> Idle]
    /\ last = Returned("New", EmptyNode, 0, <<>>, 0, EmptyNode, <<>>, EmptyHeap)
    /\ committed = EmptyHeap

SetHeap(h) ==
    /\ nodes' = h.nodes
    /\ ring' = h.ring
    /\ nodeMap' = h.nodeMap

AddNodeWeighted(n, weight) ==
    /\ Len(ring) + virts * weight <= MaxRing
    /\ SetHeap(AddNodeWeightedRun(Heap, n, weight))
    /\ last' = Returned("AddNodeWeighted", n, weight, <<>>, 0, EmptyNode, <<>>, Heap)
    /\ UNCHANGED <<hasher, virts, mu, thr, committed>>
    /\ UNCHANGED <<clockVars, storeVars>>

\* an AddNode that delegates with weight 2
AddNodeWithWeightTwo(n) ==
    /\ Len(ring) + virts <= MaxRing
    /\ SetHeap(AddNodeWeightedRun(Heap, n, 2))
    /\ last' = Returned("AddNode", n, 1, <<>>, 0, EmptyNode, <<>>, Heap)
    /\ UNCHANGED <<hasher, virts, mu, thr, committed>>
    /\ UNCHANGED <<clockVars, storeVars>>

AddNode(n) ==
    /\ Len(ring) + virts <= MaxRing
    /\ SetHeap(AddNodeWeightedRun(Heap, n, 1))
    /\ last' = Returned("AddNode", n, 1, <<>>, 0, EmptyNode, <<>>, Heap)
    /\ UNCHANGED <<hasher, virts, mu, thr, committed>>
    /\ UNCHANGED <<clockVars, storeVars>>

RemoveNode(n) ==
    /\ SetHeap(RemoveNodeRun(Heap, n))
    /\ last' = Returned("RemoveNode", n, 0, <<>>, 0, EmptyNode, <<>>, Heap)
    /\ UNCHANGED <<hasher, virts, mu, thr, committed>>
    /\ UNCHANGED <<clockVars, storeVars>>

GetNode(key) ==
    /\ last' = Returned("GetNode", EmptyNode, 0, key, 0, GetNodeResult(Heap, key), <<>>, Heap)
    /\ UNCHANGED <<hasher, virts, nodes, ring, nodeMap, mu, thr, committed>>
    /\ UNCHANGED <<clockVars, storeVars>>

GetNodes(key, replicas) ==
    /\ GetNodesResult(Heap, key, replicas).returns
    /\ last' = Returned("GetNodes", EmptyNode, 0, key, replicas, EmptyNode,
                        GetNodesResult(Heap, key, replicas).nodes, Heap)
    /\ UNCHANGED <<hasher, virts, nodes, ring, nodeMap, mu, thr, committed>>
    /\ UNCHANGED <<clockVars, storeVars>>

Next ==
    \/ \E n \in Nodes : AddNode(n)
    \/ \E n \in Nodes, weight \in Weights : AddNodeWeighted(n, weight)
    \/ \E n \in Nodes : RemoveNode(n)
    \/ \E key \in Keys : GetNode(key)
    \/ \E key \in Keys, replicas \in Replicas : GetNodes(key, replicas)

Spec == Init /\ [][Next]_vars

\* ------------------------------------------- the calls, made concurrently
\* the nodes, weights, keys and replica counts of the concurrent calls:
\* "A", "B" ; 2 ; "k4" ; 2
ConcNodes == {<<65>>, <<66>>}

ConcWeights == {2}

ConcKeys == {<<107, 52>>}

ConcReplicas == {2}

MutationBody == {"aw_weight", "aw_loop", "aw_probe", "aw_append", "aw_owner", "aw_sort",
                 "rm_delete", "rm_scan", "rm_ring", "rm_map"}

\* a thread enters AddNode, which calls AddNodeWeighted(n, 1)
CallAddNode(t, n) ==
    /\ thr[t].pc = "idle"
    /\ Len(ring) + virts <= ConcMaxRing
    /\ thr' = [thr EXCEPT ![t] = Frame("AddNode", n, 1, <<>>, 0, "aw_lock")]
    /\ UNCHANGED <<hasher, virts, nodes, ring, nodeMap, mu, last, committed>>
    /\ UNCHANGED <<clockVars, storeVars>>

CallAddNodeWeighted(t, n, weight) ==
    /\ thr[t].pc = "idle"
    /\ Len(ring) + virts * weight <= ConcMaxRing
    /\ thr' = [thr EXCEPT ![t] = Frame("AddNodeWeighted", n, weight, <<>>, 0, "aw_lock")]
    /\ UNCHANGED <<hasher, virts, nodes, ring, nodeMap, mu, last, committed>>
    /\ UNCHANGED <<clockVars, storeVars>>

CallRemoveNode(t, n) ==
    /\ thr[t].pc = "idle"
    /\ thr' = [thr EXCEPT ![t] = Frame("RemoveNode", n, 0, <<>>, 0, "rm_lock")]
    /\ UNCHANGED <<hasher, virts, nodes, ring, nodeMap, mu, last, committed>>
    /\ UNCHANGED <<clockVars, storeVars>>

CallGetNode(t, key) ==
    /\ thr[t].pc = "idle"
    /\ thr' = [thr EXCEPT ![t] = Frame("GetNode", EmptyNode, 0, key, 0, "gn_rlock")]
    /\ UNCHANGED <<hasher, virts, nodes, ring, nodeMap, mu, last, committed>>
    /\ UNCHANGED <<clockVars, storeVars>>

CallGetNodes(t, key, replicas) ==
    /\ thr[t].pc = "idle"
    /\ thr' = [thr EXCEPT ![t] = Frame("GetNodes", EmptyNode, 0, key, replicas, "gs_rlock")]
    /\ UNCHANGED <<hasher, virts, nodes, ring, nodeMap, mu, last, committed>>
    /\ UNCHANGED <<clockVars, storeVars>>

\* h.mu.Lock()
Lock(t) ==
    /\ thr[t].pc \in {"aw_lock", "rm_lock"}
    /\ CanLock(mu)
    /\ mu' = [mu EXCEPT !.writer = t]
    /\ thr' = [thr EXCEPT ![t].pc = IF thr[t].pc = "aw_lock" THEN "aw_weight" ELSE "rm_delete"]
    /\ UNCHANGED <<hasher, virts, nodes, ring, nodeMap, last, committed>>
    /\ UNCHANGED <<clockVars, storeVars>>

\* one step of the body of AddNodeWeighted or RemoveNode
Mutate(t) ==
    /\ thr[t].pc \in MutationBody
    /\ LET s == MutationStep(Heap, thr[t])
       IN  /\ SetHeap(s.h)
           /\ thr' = [thr EXCEPT ![t] = s.f]
    /\ UNCHANGED <<hasher, virts, mu, last, committed>>
    /\ UNCHANGED <<clockVars, storeVars>>

\* the deferred h.mu.Unlock(), and the return
Unlock(t) ==
    /\ thr[t].pc \in {"aw_unlock", "rm_unlock"}
    /\ mu' = [mu EXCEPT !.writer = 0]
    /\ thr' = [thr EXCEPT ![t] = Idle]
    /\ committed' = Heap
    /\ UNCHANGED <<hasher, virts, nodes, ring, nodeMap, last>>
    /\ UNCHANGED <<clockVars, storeVars>>

\* h.mu.RLock()
RLock(t) ==
    /\ thr[t].pc \in {"gn_rlock", "gs_rlock"}
    /\ CanRLock(mu)
    /\ mu' = [mu EXCEPT !.readers = mu.readers \cup {t}]
    /\ thr' = [thr EXCEPT ![t].pc = IF thr[t].pc = "gn_rlock" THEN "gn_read" ELSE "gs_read"]
    /\ UNCHANGED <<hasher, virts, nodes, ring, nodeMap, last, committed>>
    /\ UNCHANGED <<clockVars, storeVars>>

\* a GetNode that takes the first point off h.ring as it reads
ReadGetNodeDropsPoint(t) ==
    /\ thr[t].pc = "gn_read"
    /\ thr' = [thr EXCEPT ![t].node = GetNodeResult(Heap, thr[t].key),
                          ![t].pc = "gn_runlock"]
    /\ ring' = IF ring = <<>> THEN ring ELSE Tail(ring)
    /\ UNCHANGED <<hasher, virts, nodes, nodeMap, mu, last, committed>>
    /\ UNCHANGED <<clockVars, storeVars>>

\* the body of GetNode
ReadGetNode(t) ==
    /\ thr[t].pc = "gn_read"
    /\ thr' = [thr EXCEPT ![t].node = GetNodeResult(Heap, thr[t].key),
                          ![t].pc = "gn_runlock"]
    /\ UNCHANGED <<hasher, virts, nodes, ring, nodeMap, mu, last, committed>>
    /\ UNCHANGED <<clockVars, storeVars>>

\* a GetNodes that leaves h.ring rotated by one position
ReadGetNodesRotatesRing(t) ==
    /\ thr[t].pc = "gs_read"
    /\ LET res == GetNodesResult(Heap, thr[t].key, thr[t].replicas)
       IN  /\ res.returns
           /\ thr' = [thr EXCEPT ![t].out = res.nodes, ![t].pc = "gs_runlock"]
    /\ ring' = IF ring = <<>> THEN ring ELSE Append(Tail(ring), Head(ring))
    /\ UNCHANGED <<hasher, virts, nodes, nodeMap, mu, last, committed>>
    /\ UNCHANGED <<clockVars, storeVars>>

\* the body of GetNodes; a walk that never ends stays here
ReadGetNodes(t) ==
    /\ thr[t].pc = "gs_read"
    /\ LET res == GetNodesResult(Heap, thr[t].key, thr[t].replicas)
       IN  /\ res.returns
           /\ thr' = [thr EXCEPT ![t].out = res.nodes, ![t].pc = "gs_runlock"]
    /\ UNCHANGED <<hasher, virts, nodes, ring, nodeMap, mu, last, committed>>
    /\ UNCHANGED <<clockVars, storeVars>>

\* the deferred h.mu.RUnlock(), and the return
RUnlock(t) ==
    /\ thr[t].pc \in {"gn_runlock", "gs_runlock"}
    /\ mu' = [mu EXCEPT !.readers = mu.readers \ {t}]
    /\ thr' = [thr EXCEPT ![t] = Idle]
    /\ UNCHANGED <<hasher, virts, nodes, ring, nodeMap, last, committed>>
    /\ UNCHANGED <<clockVars, storeVars>>

NextConc ==
    \/ \E t \in Threads, n \in ConcNodes : CallAddNode(t, n)
    \/ \E t \in Threads, n \in ConcNodes, weight \in ConcWeights : CallAddNodeWeighted(t, n, weight)
    \/ \E t \in Threads, n \in ConcNodes : CallRemoveNode(t, n)
    \/ \E t \in Threads, key \in ConcKeys : CallGetNode(t, key)
    \/ \E t \in Threads, key \in ConcKeys, replicas \in ConcReplicas : CallGetNodes(t, key, replicas)
    \/ \E t \in Threads : Lock(t)
    \/ \E t \in Threads : Mutate(t)
    \/ \E t \in Threads : Unlock(t)
    \/ \E t \in Threads : RLock(t)
    \/ \E t \in Threads : ReadGetNode(t)
    \/ \E t \in Threads : ReadGetNodes(t)
    \/ \E t \in Threads : RUnlock(t)

\* New(WithHasher(byte-sum hasher), WithVirtualNodes(1))
InitConc ==
    /\ Init
    /\ hasher = "sum"
    /\ virts = 1

SpecConc == InitConc /\ [][NextConc]_vars

\* ----------------------------------- the calls, with weights of any sign
\* a negative, a zero and a positive weight: AddNodeWeighted accepts any int
AnyWeights == (-1)..1

NextAnyWeight ==
    \/ \E n \in Nodes : AddNode(n)
    \/ \E n \in Nodes, weight \in AnyWeights : AddNodeWeighted(n, weight)
    \/ \E n \in Nodes : RemoveNode(n)
    \/ \E key \in ConcKeys : GetNode(key)
    \/ \E key \in ConcKeys, replicas \in ConcReplicas : GetNodes(key, replicas)

SpecAnyWeight == Init /\ [][NextAnyWeight]_vars

\* ------------------------------------- lookups against a static ring
\* the nodes "A", "B", "C" in the order the setup adds them
SetupNodes == << <<65>>, <<66>>, <<67>> >>

\* the keys "k1", "k2", "k6" and the replica counts of the lookups
StaticKeys == {<<107, 49>>, <<107, 50>>, <<107, 54>>}

StaticReplicas == {2, MaxReplicas}

\* r := New(..) ; r.AddNode("A") ; r.AddNode("B") ; r.AddNode("C"), or a
\* prefix of these adds: the ring before the goroutines start; committed
\* keeps it
InitStatic ==
    /\ ClockUnused
    /\ StoresUnused
    /\ hasher \in Hashers
    /\ virts \in 1..MaxVirts
    /\ \E h1 \in {AddNodeWeightedRun(EmptyHeap, SetupNodes[1], 1)} :
       \E h2 \in {AddNodeWeightedRun(h1, SetupNodes[2], 1)} :
       \E h3 \in {AddNodeWeightedRun(h2, SetupNodes[3], 1)} :
       \E h \in {EmptyHeap, h1, h2, h3} :
         /\ nodes = h.nodes
         /\ ring = h.ring
         /\ nodeMap = h.nodeMap
         /\ committed = h
    /\ mu = Unlocked
    /\ thr = [t \in Threads |-> Idle]
    /\ last = Returned("New", EmptyNode, 0, <<>>, 0, EmptyNode, <<>>, EmptyHeap)

NextStatic ==
    \/ \E t \in Threads, key \in StaticKeys : CallGetNode(t, key)
    \/ \E t \in Threads, key \in StaticKeys, replicas \in StaticReplicas :
         CallGetNodes(t, key, replicas)
    \/ \E t \in Threads : RLock(t)
    \/ \E t \in Threads : ReadGetNode(t)
    \/ \E t \in Threads : ReadGetNodes(t)
    \/ \E t \in Threads : RUnlock(t)

SpecStatic == InitStatic /\ [][NextStatic]_vars

\* ------------------------------- mutations under a Hasher of few digests
\* New(WithHasher(narrow Hasher), WithVirtualNodes(..))
InitRetry ==
    /\ ClockUnused
    /\ StoresUnused
    /\ hasher = "narrow"
    /\ virts \in 1..MaxVirts
    /\ nodes = <<>>
    /\ ring = <<>>
    /\ nodeMap = <<>>
    /\ mu = Unlocked
    /\ thr = [t \in Threads |-> Idle]
    /\ last = Returned("New", EmptyNode, 0, <<>>, 0, EmptyNode, <<>>, EmptyHeap)
    /\ committed = EmptyHeap

\* one step of the body of a mutation, followed while i is below MaxIndex
MutateBelowMaxIndex(t) ==
    /\ thr[t].i < MaxIndex
    /\ Mutate(t)

NextRetry ==
    \/ \E t \in Threads, n \in ConcNodes : CallAddNode(t, n)
    \/ \E t \in Threads, n \in ConcNodes, weight \in ConcWeights : CallAddNodeWeighted(t, n, weight)
    \/ \E t \in Threads, n \in ConcNodes : CallRemoveNode(t, n)
    \/ \E t \in Threads : Lock(t)
    \/ \E t \in Threads : MutateBelowMaxIndex(t)
    \/ \E t \in Threads : Unlock(t)

SpecRetry == InitRetry /\ [][NextRetry]_vars

\* --------------------------------------- the calls, scheduled fairly
\* sync.RWMutex prefers writers: a blocked Lock call excludes new readers
\* from acquiring the lock, and Unlock lets in the readers that waited
\* before the next writer can proceed.  A thread at aw_lock/rm_lock has
\* called Lock, a thread at gn_rlock/gs_rlock has called RLock.
WriterWaiting == \E t \in Threads : thr[t].pc \in {"aw_lock", "rm_lock"}

\* h.mu.RLock() : returns only when no writer holds or awaits the lock
RLockBehindWriters(t) ==
    /\ ~WriterWaiting
    /\ RLock(t)

\* the deferred h.mu.Unlock(), and the return: the readers blocked in RLock
\* hold the lock for reading from now on
UnlockWakingReaders(t) ==
    /\ thr[t].pc \in {"aw_unlock", "rm_unlock"}
    /\ mu' = [writer |-> 0,
              readers |-> {r \in Threads : thr[r].pc \in {"gn_rlock", "gs_rlock"}}]
    /\ thr' = [r \in Threads |->
                IF r = t THEN Idle
                ELSE IF thr[r].pc = "gn_rlock" THEN [thr[r] EXCEPT !.pc = "gn_read"]
                ELSE IF thr[r].pc = "gs_rlock" THEN [thr[r] EXCEPT !.pc = "gs_read"]
                ELSE thr[r]]
    /\ committed' = Heap
    /\ UNCHANGED <<hasher, virts, nodes, ring, nodeMap, last>>
    /\ UNCHANGED <<clockVars, storeVars>>

\* the node "A", the weight 1, the key "k4", the replica count 2
FairNodes == {<<65>>}

FairWeights == {1}

NextFair ==
    \/ \E t \in Threads, n \in FairNodes : CallAddNode(t, n)
    \/ \E t \in Threads, n \in FairNodes, weight \in FairWeights : CallAddNodeWeighted(t, n, weight)
    \/ \E t \in Threads, n \in FairNodes : CallRemoveNode(t, n)
    \/ \E t \in Threads, key \in ConcKeys : CallGetNode(t, key)
    \/ \E t \in Threads, key \in ConcKeys, replicas \in ConcReplicas : CallGetNodes(t, key, replicas)
    \/ \E t \in Threads : Lock(t)
    \/ \E t \in Threads : MutateBelowMaxIndex(t)
    \/ \E t \in Threads : UnlockWakingReaders(t)
    \/ \E t \in Threads : RLockBehindWriters(t)
    \/ \E t \in Threads : ReadGetNode(t)
    \/ \E t \in Threads : ReadGetNodes(t)
    \/ \E t \in Threads : RUnlock(t)

\* every goroutine that can run does run; a goroutine blocked in Lock gets
\* the lock if it is free again and again (sync.Mutex hands the lock to a
\* starving waiter)
Fairness ==
    \A t \in Threads :
      /\ SF_vars(Lock(t))
      /\ WF_vars(MutateBelowMaxIndex(t))
      /\ WF_vars(UnlockWakingReaders(t))
      /\ WF_vars(RLockBehindWriters(t))
      /\ WF_vars(ReadGetNode(t))
      /\ WF_vars(ReadGetNodes(t))
      /\ WF_vars(RUnlock(t))

\* New(WithHasher(narrow Hasher), WithVirtualNodes(1))
InitFair ==
    /\ InitRetry
    /\ virts = 1

SpecFair == InitFair /\ [][NextFair]_vars /\ Fairness

\* ------------------------------------------- the calls on one hlc.Clock
\* a HashRing that is not used: New(), and no call
RingUnused ==
    /\ hasher = "sum"
    /\ virts = 1
    /\ nodes = <<>>
    /\ ring = <<>>
    /\ nodeMap = <<>>
    /\ mu = Unlocked
    /\ thr = [t \in Threads |-> Idle]
    /\ last = Returned("New", EmptyNode, 0, <<>>, 0, EmptyNode, <<>>, EmptyHeap)
    /\ committed = EmptyHeap

\* the readings of the wall clock: unixMillis() may return any of them at
\* any call, a smaller one after a greater one included
WallReadings == 1..MaxWall

\* the Config.MaxClockDriftMillis given to New: unspecified, or 3
Drifts == {0, 3}

\* the round-trip times passed to Update, in milliseconds
Rtts == {0, 10}

\* the Timestamps received from other nodes
RemoteTimestamps ==
    {Timestamp(physical, logical, uncertainty) :
        physical \in WallReadings,
        logical \in {0, 1, MaxUint16},
        uncertainty \in {DefaultDriftMillis}}

\* hlc.New(cfg)
InitClock ==
    /\ RingUnused
    /\ StoresUnused
    /\ \E drift \in Drifts : clock = NewClock(drift)
    /\ issued = <<>>
    /\ calls = 0

\* c.Now(), from c.mu.Lock() to the return, unixMillis() returning now
Now(now) ==
    /\ calls < MaxCalls
    /\ clock' = NowState(clock, now)
    /\ issued' = Append(issued, NowResult(clock'))
    /\ calls' = calls + 1
    /\ UNCHANGED <<ringVars, storeVars>>

\* c.Update(remote, rttMillis), from c.mu.Lock() to the return
Update(remote, rttMillis, now) ==
    /\ calls < MaxCalls
    /\ clock' = UpdateState(clock, remote, rttMillis, now)
    /\ calls' = calls + 1
    /\ UNCHANGED <<ringVars, storeVars, issued>>

NextClock ==
    \/ \E now \in WallReadings : Now(now)
    \/ \E remote \in RemoteTimestamps, rttMillis \in Rtts, now \in WallReadings :
         Update(remote, rttMillis, now)

SpecClock == InitClock /\ [][NextClock]_vars

\* ------------------------------------- the Apply calls on Store replicas
\* the key "k"
StoreKeys == {<<107>>}

\* the Data strings "x", "y", "z"
StoreData == {<<120>>, <<121>>, <<122>>}

\* the Timestamps of the values: as Node.Put takes them from Now and
\* Uncertainty on a Clock of drift 5
StoreTimestamps ==
    {Timestamp(physical, logical, DefaultDriftMillis) :
        physical \in {10, 12, 20}, logical \in {0, 1}}

\* the (key, Value) pairs that reach the replicas
StoreWrites ==
    {<<key, Value(d, ts)>> : key \in StoreKeys, d \in StoreData, ts \in StoreTimestamps}

\* NewStore() for each replica; every replica is to Apply the same set of
\* at most MaxValues writes
InitStore ==
    /\ RingUnused
    /\ ClockUnused
    /\ storeData = [r \in Stores |-> <<>>]
    /\ \E W \in SUBSET StoreWrites :
         /\ Cardinality(W) <= MaxValues
         /\ pending = [r \in Stores |-> W]

\* s.Apply(key, val) on the replica r, from s.mu.Lock() to the return
Apply(r, key, val) ==
    /\ <<key, val>> \in pending[r]
    /\ storeData' = [storeData EXCEPT ![r] = StoreApply(storeData[r], key, val)]
    /\ pending' = [pending EXCEPT ![r] = pending[r] \ {<<key, val>>}]
    /\ UNCHANGED <<ringVars, clockVars>>

NextStore ==
    \E r \in Stores, w \in StoreWrites : Apply(r, w[1], w[2])

SpecStore == InitStore /\ [][NextStore]_vars

\* ================================================================ claims
NodeA == <<65>>
NodeB == <<66>>
NodeC == <<67>>
KeyK1 == <<107, 49>>
KeyK2 == <<107, 50>>
KeyK3 == <<107, 51>>
KeyK4 == <<107, 52>>

SetMin(S) == CHOOSE x \in S : \A y \in S : x <= y

SeqRange(s) == {s[j] : j \in 1..Len(s)}

NoDuplicates(s) == \A a, b \in 1..Len(s) : a # b => s[a] # s[b]

\* the digests on the ring of h, and the nodes that own at least one of them
RingDigests(h) == SeqRange(h.ring)

Owners(h) == {MapGet(h.nodeMap, d) : d \in RingDigests(h)}

\* the digests of h owned by node n
PointsOf(h, n) == {d \in RingDigests(h) : MapGet(h.nodeMap, d) = n}

\* the digest first met clockwise from point: the smallest one >= point, or,
\* when there is none, the smallest one of the ring
ClockwiseDigest(h, point) ==
    LET ge == {d \in RingDigests(h) : d >= point}
    IN  IF ge # {} THEN SetMin(ge) ELSE SetMin(RingDigests(h))

\* the ring of the reference scenario: 10 -> A, 30 -> B, 50 -> C
ScenarioHeap(h) ==
    /\ hasher = "scenario"
    /\ h.ring = <<10, 30, 50>>
    /\ h.nodeMap = (10 :> NodeA) @@ (30 :> NodeB) @@ (50 :> NodeC)

\* Lookups leave nodes, ring and nodeMap alone, so every reachable ring is
\* the ring of a state that New or a mutation has just returned to: what is
\* stated of every key is evaluated there, and once more, for the key of the
\* call, in the states a lookup has returned to.
RingIsNew == last.op \notin {"GetNode", "GetNodes"}

\* C1: on every reachable non-empty ring, GetNode(key) is the owner of the
\* smallest ring digest >= hash(key), or of the smallest digest of the ring
\* when no digest is >= hash(key); on the ring 10 -> A, 30 -> B, 50 -> C the
\* keys hashing to 5, 25, 45, 55 resolve to A, B, C, A.
C1_GetNodeClockwiseOwner ==
    /\ \A key \in Keys :
         RingIsNew /\ Len(ring) > 0 =>
           GetNodeResult(Heap, key) = nodeMap[ClockwiseDigest(Heap, hash(key))]
    /\ last.op = "GetNode" /\ Len(ring) > 0 =>
         last.node = nodeMap[ClockwiseDigest(Heap, hash(last.key))]
    /\ ScenarioHeap(Heap) =>
         /\ GetNodeResult(Heap, KeyK1) = NodeA
         /\ GetNodeResult(Heap, KeyK2) = NodeB
         /\ GetNodeResult(Heap, KeyK3) = NodeC
         /\ GetNodeResult(Heap, KeyK4) = NodeA

\* GetNode("k4") has returned A on the scenario ring, by wraparound (55 > 50)
C1_Witness ==
    /\ ScenarioHeap(Heap)
    /\ last.op = "GetNode"
    /\ last.key = KeyK4
    /\ hash(last.key) > ring[Len(ring)]
    /\ last.node = NodeA

\* C2: after RemoveNode(X), every key whose owner was not X before the call
\* has the owner it had before; on the scenario ring, RemoveNode("B") leaves
\* k1 -> A, k3 -> C, k4 -> A and remaps k2 to C.
C2_RemoveMinimalRemapping ==
    last.op = "RemoveNode" =>
      /\ \A key \in Keys :
           GetNodeResult(last.pre, key) # last.n =>
             GetNodeResult(Heap, key) = GetNodeResult(last.pre, key)
      /\ ScenarioHeap(last.pre) /\ last.n = NodeB =>
           /\ GetNodeResult(Heap, KeyK1) = NodeA
           /\ GetNodeResult(Heap, KeyK2) = NodeC
           /\ GetNodeResult(Heap, KeyK3) = NodeC
           /\ GetNodeResult(Heap, KeyK4) = NodeA

\* RemoveNode("B") has returned on the scenario ring: k2 moved from B to C
\* and k1, owned by A, stayed
C2_Witness ==
    /\ last.op = "RemoveNode"
    /\ last.n = NodeB
    /\ ScenarioHeap(last.pre)
    /\ GetNodeResult(last.pre, KeyK2) = NodeB
    /\ GetNodeResult(Heap, KeyK2) = NodeC
    /\ GetNodeResult(last.pre, KeyK1) = NodeA
    /\ GetNodeResult(Heap, KeyK1) = NodeA

\* C3: for every key and every r > 0, GetNodes(key, r) returns a sequence
\* without duplicates of exactly min(r, number of distinct nodes owning
\* points) nodes, whatever the number of points per node.
C3_GetNodesDistinctAndCapped ==
    /\ \A key \in Keys, r \in 1..MaxReplicas :
         RingIsNew =>
         LET res == GetNodesResult(Heap, key, r)
         IN  /\ res.returns
             /\ NoDuplicates(res.nodes)
             /\ Len(res.nodes) = Min(r, Cardinality(Owners(Heap)))
    /\ last.op = "GetNodes" /\ last.replicas > 0 =>
         /\ NoDuplicates(last.out)
         /\ Len(last.out) = Min(last.replicas, Cardinality(Owners(Heap)))

\* GetNodes has returned 2 nodes for r = 3 on a ring of 2 nodes and more
\* than 2 points
C3_Witness ==
    /\ last.op = "GetNodes"
    /\ last.replicas = 3
    /\ Cardinality(Owners(Heap)) = 2
    /\ Len(ring) > 2
    /\ Len(last.out) = 2

StrictlyAscending(s) == \A j \in 1..(Len(s) - 1) : s[j] < s[j + 1]

IsAdd(op) == op \in {"AddNode", "AddNodeWeighted"}

\* C5: after any sequence of AddNode/AddNodeWeighted/RemoveNode calls the
\* ring's digest sequence is strictly ascending (sorted, no digest twice).
C5_RingStrictlyAscending == StrictlyAscending(ring)

\* an add has returned on a ring of 3 or more points whose largest digest
\* was there before the call: the points it appended had to be moved
C5_Witness ==
    /\ IsAdd(last.op)
    /\ Len(ring) >= 3
    /\ Len(ring) > Len(last.pre.ring)
    /\ ring[Len(ring)] \in RingDigests(last.pre)

\* C6: every node n of the weight mapping owns exactly virts * weight(n)
\* points; in particular AddNodeWeighted(n, w) of a node that was absent
\* inserts exactly virts * w points, also when candidate digests collide.
C6_PointsEqualVirtsTimesWeight ==
    IsAdd(last.op) /\ last.n \notin DOMAIN last.pre.nodes =>
      /\ last.n \in DOMAIN nodes
      /\ Cardinality(PointsOf(Heap, last.n)) = virts * nodes[last.n]

\* C7: the set of digests of the ring sequence equals the key set of the
\* digest-to-node mapping.
C7_RingDigestsEqualNodeMapKeys == RingDigests(Heap) = DOMAIN nodeMap

\* a removal has returned that deleted points and left others on the ring
C7_Witness ==
    /\ last.op = "RemoveNode"
    /\ Len(ring) > 0
    /\ Len(ring) < Len(last.pre.ring)
    /\ DOMAIN nodeMap # DOMAIN last.pre.nodeMap

\* C8: after RemoveNode(n), n owns no digest of the ring sequence or of the
\* digest-to-node mapping and has no weight entry; the points of the other
\* nodes, their order, their owners and the other weights are as before.
C8_RemoveNodeEffect ==
    last.op = "RemoveNode" =>
      LET pre == last.pre
          n   == last.n
      IN  /\ n \notin DOMAIN nodes
          /\ \A d \in RingDigests(Heap) : MapGet(nodeMap, d) # n
          /\ \A d \in DOMAIN nodeMap : nodeMap[d] # n
          /\ ring = SelectSeq(pre.ring, LAMBDA d : MapGet(pre.nodeMap, d) # n)
          /\ DOMAIN nodeMap = {d \in DOMAIN pre.nodeMap : pre.nodeMap[d] # n}
          /\ \A d \in DOMAIN nodeMap : nodeMap[d] = pre.nodeMap[d]
          /\ DOMAIN nodes = DOMAIN pre.nodes \ {n}
          /\ \A m \in DOMAIN nodes : nodes[m] = pre.nodes[m]

\* a node owning points has been removed from a ring on which another node
\* owns points too
C8_Witness ==
    /\ last.op = "RemoveNode"
    /\ last.n \in DOMAIN last.pre.nodes
    /\ PointsOf(last.pre, last.n) # {}
    /\ Len(ring) > 0
    /\ DOMAIN nodes # {}

\* C9: RemoveNode(n) of a node that is not present leaves the ring sequence,
\* the digest-to-node mapping and the weight mapping as they were, and
\* RemoveNode(n) twice leaves the state RemoveNode(n) once leaves.
C9_RemoveAbsentIsNoOp ==
    /\ last.op = "RemoveNode" /\ last.n \notin DOMAIN last.pre.nodes =>
         Heap = last.pre
    /\ \A n \in Nodes :
         RingIsNew =>
         /\ n \notin DOMAIN nodes => RemoveNodeRun(Heap, n) = Heap
         /\ RemoveNodeRun(RemoveNodeRun(Heap, n), n) = RemoveNodeRun(Heap, n)

\* RemoveNode of an absent node has returned on a non-empty ring
C9_Witness ==
    /\ last.op = "RemoveNode"
    /\ last.n \notin DOMAIN last.pre.nodes
    /\ Len(last.pre.ring) > 0
    /\ Len(ring) > 0

\* the owners met walking the ring of h clockwise from the point of the key,
\* each at its first point only
ClockwiseDistinctOwners(h, key) ==
    LET N     == Len(h.ring)
        d0    == ClockwiseDigest(h, hash(key))
        s     == CHOOSE j \in 1..N : h.ring[j] = d0
        rot   == [j \in 1..N |-> MapGet(h.nodeMap, h.ring[((s - 1 + j - 1) % N) + 1])]
        first == {j \in 1..N : \A j2 \in 1..(j - 1) : rot[j2] # rot[j]}
        nth(m) == CHOOSE j \in first : Cardinality({j2 \in first : j2 <= j}) = m
    IN  [m \in 1..Cardinality(first) |-> rot[nth(m)]]

\* C10: on a non-empty ring and for r > 0, GetNodes(key, r) starts with
\* GetNode(key) and goes on with the distinct owners in the order their
\* first point is met clockwise from the primary position; on the scenario
\* ring GetNodes("k1", 2) is [A, B].
C10_GetNodesClockwiseOrder ==
    /\ \A key \in Keys, r \in 1..MaxReplicas :
         RingIsNew /\ Len(ring) > 0 =>
           LET res == GetNodesResult(Heap, key, r)
               all == ClockwiseDistinctOwners(Heap, key)
           IN  /\ res.returns
               /\ Len(res.nodes) >= 1
               /\ res.nodes[1] = GetNodeResult(Heap, key)
               /\ res.nodes = SubSeq(all, 1, Min(r, Len(all)))
    /\ last.op = "GetNodes" /\ last.replicas > 0 /\ Len(ring) > 0 =>
         /\ last.out[1] = GetNodeResult(Heap, last.key)
         /\ last.out = SubSeq(ClockwiseDistinctOwners(Heap, last.key), 1,
                              Min(last.replicas, Cardinality(Owners(Heap))))
    /\ ScenarioHeap(Heap) => GetNodesResult(Heap, KeyK1, 2).nodes = <<NodeA, NodeB>>

\* GetNodes has returned 2 nodes whose second is met only after passing a
\* second point of the primary, on a walk that wrapped round the ring
C10_Witness ==
    /\ last.op = "GetNodes"
    /\ last.replicas = 2
    /\ Len(last.out) = 2
    /\ hash(last.key) > ring[1]
    /\ Len(ring) >= 3
    /\ \E j \in 1..(Len(ring) - 1) :
         /\ ring[j] >= hash(last.key)
         /\ nodeMap[ring[j]] = last.out[1]
         /\ nodeMap[ring[j + 1]] = last.out[1]
    /\ last.out[2] = nodeMap[ring[1]]

\* the positions at which a lookup holds the read lock
ReadSection == {"gn_read", "gn_runlock", "gs_read", "gs_runlock"}

\* what a mutation that has reached its Unlock was called to do, run in one
\* piece on the state committed before it
WholeMutation(f) ==
    IF f.op = "RemoveNode" THEN RemoveNodeRun(committed, f.n)
    ELSE AddNodeWeightedRun(committed, f.n, f.weight)

\* C4: a lookup that runs concurrently with AddNodeWeighted/RemoveNode reads
\* the ring only as a completed mutation left it, never a state a mutation is
\* half way through, and returns what it returns on that state; and each
\* mutation leaves the state it leaves when run alone on the state before it.
C4_LookupsSeeWholeMutations ==
    /\ \A t \in Threads :
         thr[t].pc \in ReadSection =>
           /\ mu.writer = 0
           /\ Heap = committed
    /\ \A t \in Threads :
         thr[t].pc = "gn_runlock" =>
           thr[t].node = GetNodeResult(committed, thr[t].key)
    /\ \A t \in Threads :
         thr[t].pc = "gs_runlock" =>
           thr[t].out = GetNodesResult(committed, thr[t].key, thr[t].replicas).nodes
    /\ \A t \in Threads :
         thr[t].pc \in {"aw_unlock", "rm_unlock"} => Heap = WholeMutation(thr[t])

\* a mutation is half way (its points appended, the ring not yet sorted)
\* while another thread has called a lookup, which waits for the lock
C4_Witness ==
    \E w, r \in Threads :
      /\ mu.writer = w
      /\ thr[w].pc = "aw_sort"
      /\ ~StrictlyAscending(ring)
      /\ Heap # committed
      /\ thr[r].pc \in {"gn_rlock", "gs_rlock"}

\* the position at which the walk of GetNodes starts for the key: the Go
\* index of the digest first met clockwise from hash(key), plus one
WalkStart(h, key) ==
    CHOOSE j \in 1..Len(h.ring) : h.ring[j] = ClockwiseDigest(h, hash(key))

\* C11: on every ring reached by AddNode/AddNodeWeighted/RemoveNode, for
\* every key and every replica count r (non-positive, or larger than the
\* number of nodes, included) the clockwise walk of GetNodes ends within
\* len(ring) steps and the call returns.
C11_GetNodesWalkTerminates ==
    \A key \in Keys, r \in Replicas :
      RingIsNew => GetNodesResult(Heap, key, r).returns

\* GetNodes has returned for r larger than the number of nodes after a walk
\* of len(ring) steps: the only point of the second node it returned is the
\* last position of the round
C11_Witness ==
    /\ last.op = "GetNodes"
    /\ last.replicas > Cardinality(DOMAIN nodes)
    /\ Len(ring) >= 3
    /\ Len(last.out) = 2
    /\ LET s    == WalkStart(Heap, last.key)
           prev == ((s + Len(ring) - 2) % Len(ring)) + 1
       IN  /\ nodeMap[ring[prev]] = last.out[2]
           /\ Cardinality(PointsOf(Heap, last.out[2])) = 1

\* the digests the narrow Hasher can return
NarrowDigests == 0..(DigestSpace - 1)

\* C12: the collision-retry loop of AddNodeWeighted ends, whatever the
\* Hasher: whenever a candidate digest collides, a digest that is not yet on
\* the ring is left for a later candidate to find, so that the call goes on
\* to its sort and its Unlock.
C12_RetryLoopFindsUnusedDigest ==
    \A t \in Threads :
      /\ thr[t].pc = "aw_probe"
      /\ hash(VirtualNodeKey(thr[t].n, thr[t].i)) \in DOMAIN nodeMap
      => \E d \in NarrowDigests : d \notin DOMAIN nodeMap

\* the positions at which a mutation holds the lock for writing
WriteSection == MutationBody \cup {"aw_unlock", "rm_unlock"}

\* the threads inside the critical section of a mutation, and of a lookup
Writers == {t \in Threads : thr[t].pc \in WriteSection}

Readers == {t \in Threads : thr[t].pc \in ReadSection}

\* C13: in every reachable state at most one mutation is between its Lock
\* and its Unlock, and while one is, no lookup is between its RLock and its
\* RUnlock; h.mu records exactly the threads inside (several lookups may be
\* inside together when no mutation is).
C13_LockDiscipline ==
    /\ Cardinality(Writers) <= 1
    /\ Writers # {} => Readers = {}
    /\ Writers = IF mu.writer = 0 THEN {} ELSE {mu.writer}
    /\ Readers = mu.readers

\* two lookups, a GetNode and a GetNodes, are inside their critical
\* sections together on a non-empty ring, and no mutation holds the lock
C13_Witness ==
    /\ Writers = {}
    /\ Len(ring) > 0
    /\ \E a, b \in Readers :
         /\ a # b
         /\ thr[a].op = "GetNode"
         /\ thr[b].op = "GetNodes"

\* the Go index at which GetNode(key) reads h.ring: what sort.Search
\* returns, or 0 when that is len(h.ring)
GetNodeIndex(h, key) ==
    LET found == SearchRing(h.ring, hash(key))
    IN  IF found = Len(h.ring) THEN 0 ELSE found

\* C14: after any sequence of AddNode/AddNodeWeighted/RemoveNode calls, on a
\* non-empty ring GetNode(key) reads h.ring within its bounds, finds the
\* digest in the digest-to-node mapping and returns a node of the weight
\* mapping, for every key; after RemoveNode(n) it never returns n.
C14_GetNodeReturnsMember ==
    /\ \A key \in Keys :
         RingIsNew /\ Len(ring) > 0 =>
           /\ GetNodeIndex(Heap, key) \in 0..(Len(ring) - 1)
           /\ ring[GetNodeIndex(Heap, key) + 1] \in DOMAIN nodeMap
           /\ GetNodeResult(Heap, key) \in DOMAIN nodes
           /\ GetNodeResult(Heap, key) # EmptyNode
    /\ last.op = "GetNode" /\ Len(ring) > 0 => last.node \in DOMAIN nodes
    /\ last.op = "RemoveNode" =>
         \A key \in Keys : GetNodeResult(Heap, key) # last.n

\* a node that owned a key has been removed and the ring is not empty: the
\* key now resolves, by wraparound, to a node that is still a member
C14_Witness ==
    /\ last.op = "RemoveNode"
    /\ Len(ring) > 0
    /\ \E key \in Keys :
         /\ GetNodeResult(last.pre, key) = last.n
         /\ hash(key) > ring[Len(ring)]
         /\ GetNodeResult(Heap, key) \in DOMAIN nodes

\* C15: whenever the ring is empty, initially or after every added node has
\* been removed (which leaves no point behind), GetNode(key) returns the
\* zero Node "" for every key.
C15_GetNodeEmptyRingSentinel ==
    /\ \A key \in Keys :
         RingIsNew /\ Len(ring) = 0 => GetNodeResult(Heap, key) = EmptyNode
    /\ last.op = "GetNode" /\ Len(ring) = 0 => last.node = EmptyNode
    /\ DOMAIN nodes = {} => ring = <<>> /\ nodeMap = <<>>

\* the last node of a ring of two or more points has been removed, and a
\* key it owned resolves to the zero Node
C15_Witness ==
    /\ last.op = "RemoveNode"
    /\ Len(last.pre.ring) >= 2
    /\ DOMAIN last.pre.nodes = {last.n}
    /\ Len(ring) = 0
    /\ \E key \in Keys :
         /\ GetNodeResult(last.pre, key) = last.n
         /\ GetNodeResult(Heap, key) = EmptyNode

\* C16: for every key, GetNodes(key, r) returns the empty sequence when
\* r <= 0 or the ring is empty, and a non-empty sequence when r > 0 and the
\* ring is not empty.
C16_GetNodesEmptyExactlyWhenNothingAsked ==
    /\ \A key \in Keys, r \in Replicas :
         RingIsNew =>
           LET res == GetNodesResult(Heap, key, r)
           IN  /\ r <= 0 \/ Len(ring) = 0 => res.returns /\ res.nodes = <<>>
               /\ r > 0 /\ Len(ring) > 0 => res.returns /\ Len(res.nodes) >= 1
    /\ last.op = "GetNodes" =>
         (last.out = <<>> <=> (last.replicas <= 0 \/ Len(ring) = 0))

\* GetNodes has returned the empty sequence for a negative replica count on
\* a ring on which the same key has replicas for r = 1
C16_Witness ==
    /\ last.op = "GetNodes"
    /\ last.replicas < 0
    /\ Len(ring) > 0
    /\ last.out = <<>>
    /\ Len(GetNodesResult(Heap, last.key, 1).nodes) = 1

\* the digests of the first total candidates of n: "n-0", .., "n-(total-1)"
CandidateDigests(n, total) == {hash(VirtualNodeKey(n, i)) : i \in 0..(total - 1)}

\* n is on the ring of h as an add of its weight places it when no candidate
\* collides: its points are its first virts * weight candidates, all distinct
AddedWithoutCollision(h, n) ==
    /\ n \in DOMAIN h.nodes
    /\ PointsOf(h, n) = CandidateDigests(n, virts * h.nodes[n])
    /\ Cardinality(PointsOf(h, n)) = virts * h.nodes[n]

\* RemoveNode(n) followed by AddNodeWeighted(n, the weight n had)
RemoveThenReAdd(h, n) == AddNodeWeightedRun(RemoveNodeRun(h, n), n, h.nodes[n])

\* C17: on a ring on which X stands with weight w and without collisions
\* among its candidates, RemoveNode(X) followed by AddNodeWeighted(X, w)
\* restores, for every key, the owner GetNode returned before the removal
\* (the ring sequence and both mappings are as before the removal).
C17_RemoveReAddRoundTrip ==
    /\ \A n \in Nodes :
         RingIsNew /\ AddedWithoutCollision(Heap, n) =>
           \A key \in Keys :
             GetNodeResult(RemoveThenReAdd(Heap, n), key) = GetNodeResult(Heap, key)
    /\ last.op = "RemoveNode" /\ AddedWithoutCollision(last.pre, last.n) =>
         LET back == AddNodeWeightedRun(Heap, last.n, last.pre.nodes[last.n])
         IN  /\ \A key \in Keys : GetNodeResult(back, key) = GetNodeResult(last.pre, key)
             /\ back = last.pre

\* a node of weight 2, standing without collisions among other nodes, has
\* been removed; a key it owned went to another node, and the re-add gives
\* the key back
C17_Witness ==
    /\ last.op = "RemoveNode"
    /\ AddedWithoutCollision(last.pre, last.n)
    /\ last.pre.nodes[last.n] = 2
    /\ Cardinality(DOMAIN nodes) >= 1
    /\ \E key \in Keys :
         /\ GetNodeResult(last.pre, key) = last.n
         /\ GetNodeResult(Heap, key) \in DOMAIN nodes
         /\ GetNodeResult(AddNodeWeightedRun(Heap, last.n, 2), key) = last.n

\* C18: after AddNode(X) or AddNodeWeighted(X, w), on any reachable ring
\* (X present or not, candidates colliding or not), every key is owned by
\* the node that owned it before the call or by X: no key moves from one
\* node that was there to another node that was there.
C18_AddMinimalRemapping ==
    IsAdd(last.op) =>
      \A key \in Keys :
        \/ GetNodeResult(Heap, key) = last.n
        \/ /\ Len(last.pre.ring) > 0
           /\ GetNodeResult(Heap, key) = GetNodeResult(last.pre, key)

\* an add whose first candidate collided has returned on a ring of two
\* other nodes: one key moved to the added node, another stayed where it was
C18_Witness ==
    /\ IsAdd(last.op)
    /\ last.n \notin DOMAIN last.pre.nodes
    /\ Cardinality(DOMAIN last.pre.nodes) = 2
    /\ hash(VirtualNodeKey(last.n, 0)) \in DOMAIN last.pre.nodeMap
    /\ \E k1, k2 \in Keys :
         /\ GetNodeResult(last.pre, k1) # last.n
         /\ GetNodeResult(Heap, k1) = last.n
         /\ GetNodeResult(Heap, k2) # last.n
         /\ GetNodeResult(Heap, k2) = GetNodeResult(last.pre, k2)

\* C19: against a static ring (the setup's adds done, no mutation called),
\* in every interleaving of GetNode/GetNodes calls of several threads each
\* call returns what the same call returns when made alone on that ring, and
\* the ring sequence, the digest-to-node mapping and the weight mapping stay
\* as the setup left them.
C19_StaticRingLookups ==
    /\ Heap = committed
    /\ mu.writer = 0
    /\ \A t \in Threads :
         thr[t].pc = "gn_runlock" =>
           thr[t].node = GetNodeResult(committed, thr[t].key)
    /\ \A t \in Threads :
         thr[t].pc = "gs_read" =>
           GetNodesResult(committed, thr[t].key, thr[t].replicas).returns
    /\ \A t \in Threads :
         thr[t].pc = "gs_runlock" =>
           thr[t].out = GetNodesResult(committed, thr[t].key, thr[t].replicas).nodes

\* on the ring of A, B, C two threads hold their results together: a
\* GetNode that found a node, and a GetNodes that found all three, each as
\* the call made alone finds it
C19_Witness ==
    /\ Cardinality(DOMAIN nodes) = Len(SetupNodes)
    /\ \E a, b \in Threads :
         /\ a # b
         /\ thr[a].pc = "gn_runlock"
         /\ thr[a].node \in DOMAIN nodes
         /\ thr[b].pc = "gs_runlock"
         /\ Len(thr[b].out) = Len(SetupNodes)
         /\ thr[b].out[1] = GetNodeResult(Heap, thr[b].key)

C21_AddKeepsExistingPoints ==
    IsAdd(last.op) =>
      /\ \A d \in RingDigests(last.pre) :
           /\ d \in RingDigests(Heap)
           /\ MapGet(nodeMap, d) = MapGet(last.pre.nodeMap, d)
      /\ SelectSeq(ring, LAMBDA d : d \in RingDigests(last.pre)) = last.pre.ring
      /\ \A d \in RingDigests(Heap) \ RingDigests(last.pre) : nodeMap[d] = last.n

\* an add has returned whose first candidate collided with a point of
\* another node: that point is still the other node's
C21_Witness ==
    /\ IsAdd(last.op)
    /\ LET d == hash(VirtualNodeKey(last.n, 0))
       IN  /\ d \in DOMAIN last.pre.nodeMap
           /\ last.pre.nodeMap[d] # last.n
           /\ nodeMap[d] = last.pre.nodeMap[d]
    /\ Len(ring) > Len(last.pre.ring)

\* C22: AddNode(n) does what AddNodeWeighted(n, 1) does: from every ring
\* state the call leaves the ring sequence, the digest-to-node mapping and
\* the weight mapping that AddNodeWeighted(n, 1) leaves from that state,
\* with weight 1 recorded for n.
C22_AddNodeIsAddNodeWeightedOne ==
    last.op = "AddNode" =>
      /\ Heap = AddNodeWeightedRun(last.pre, last.n, 1)
      /\ nodes = MapPut(last.pre.nodes, last.n, 1)
      /\ Cardinality(RingDigests(Heap) \ RingDigests(last.pre)) <= virts

\* AddNode has returned for a node that was on the ring with weight 2: the
\* weight is now 1 and points were appended
C22_Witness ==
    /\ last.op = "AddNode"
    /\ last.n \in DOMAIN last.pre.nodes
    /\ last.pre.nodes[last.n] = 2
    /\ nodes[last.n] = 1
    /\ Len(ring) > Len(last.pre.ring)
    /\ Cardinality(DOMAIN nodes) >= 2

\* C23: in every state a lookup can observe, reached by AddNode,
\* AddNodeWeighted with positive weights and RemoveNode, the owners of ring
\* points are exactly the nodes of the weight mapping: every owner has a
\* weight entry, every node with a weight entry owns a point, and
\* len(nodes), the cap of GetNodes, is the number of distinct owners.
C23_OwnersEqualWeightedNodes ==
    /\ Owners(Heap) = DOMAIN nodes
    /\ \A d \in DOMAIN nodeMap : nodeMap[d] \in DOMAIN nodes
    /\ \A n \in DOMAIN nodes : PointsOf(Heap, n) # {}
    /\ Cardinality(DOMAIN nodes) = Cardinality(Owners(Heap))

\* an add whose candidates collided has returned: the node has fewer points
\* than virts * weight, but it has one, next to the points of another node
C23_Witness ==
    /\ IsAdd(last.op)
    /\ Cardinality(PointsOf(Heap, last.n)) < virts * nodes[last.n]
    /\ Cardinality(PointsOf(Heap, last.n)) >= 1
    /\ Cardinality(DOMAIN nodes) >= 2
    /\ Owners(Heap) = DOMAIN nodes

\* C24: AddNode/AddNodeWeighted(n, w2) of a node n that is on the ring (no
\* RemoveNode(n) before) keeps every point n owns, appends at least one new
\* point owned by n and records w2 as the weight of n: each re-add strictly
\* increases the number of points of n.
C24_ReAddInflates ==
    IsAdd(last.op) /\ last.n \in DOMAIN last.pre.nodes =>
      /\ PointsOf(last.pre, last.n) \subseteq PointsOf(Heap, last.n)
      /\ PointsOf(Heap, last.n) \ PointsOf(last.pre, last.n) # {}
      /\ Cardinality(PointsOf(Heap, last.n)) > Cardinality(PointsOf(last.pre, last.n))
      /\ nodes[last.n] = last.weight
      /\ \A m \in DOMAIN last.pre.nodes \ {last.n} :
           m \in DOMAIN nodes /\ nodes[m] = last.pre.nodes[m]

\* a node standing with weight 1 next to another node has been re-added
\* with weight 2: it keeps its points, has more of them, and weight 2
C24_Witness ==
    /\ last.op = "AddNodeWeighted"
    /\ last.n \in DOMAIN last.pre.nodes
    /\ last.pre.nodes[last.n] = 1
    /\ last.weight = 2
    /\ nodes[last.n] = 2
    /\ Cardinality(DOMAIN last.pre.nodes) >= 2
    /\ Cardinality(PointsOf(Heap, last.n)) > virts * 2

\* C25: AddNodeWeighted(n, w) with w <= 0 of an absent node n inserts no
\* point and leaves every lookup as it was: afterwards GetNode(k) returns
\* what it returned before for every key k, and GetNodes(k, r) returns, and
\* returns what it returned before, for every k and every r.
C25_NonPositiveWeightIsAbsent ==
    /\ last.op = "AddNodeWeighted"
    /\ last.weight <= 0
    /\ last.n \notin DOMAIN last.pre.nodes
    => /\ ring = last.pre.ring
       /\ nodeMap = last.pre.nodeMap
       /\ \A key \in Keys : GetNodeResult(Heap, key) = GetNodeResult(last.pre, key)
       /\ \A key \in Keys, r \in Replicas :
            /\ GetNodesResult(Heap, key, r).returns
            /\ GetNodesResult(Heap, key, r).nodes = GetNodesResult(last.pre, key, r).nodes

\* AddNodeWeighted(x, wx) followed by AddNodeWeighted(y, wy)
AddBoth(h, x, wx, y, wy) == AddNodeWeightedRun(AddNodeWeightedRun(h, x, wx), y, wy)

\* no candidate of x or of y collides: their candidate digests are all
\* distinct, from each other and from the digests on the ring of h
CandidatesDoNotCollide(h, x, wx, y, wy) ==
    /\ Cardinality(CandidateDigests(x, virts * wx)) = virts * wx
    /\ Cardinality(CandidateDigests(y, virts * wy)) = virts * wy
    /\ CandidateDigests(x, virts * wx) \cap CandidateDigests(y, virts * wy) = {}
    /\ CandidateDigests(x, virts * wx) \cap DOMAIN h.nodeMap = {}
    /\ CandidateDigests(y, virts * wy) \cap DOMAIN h.nodeMap = {}

\* C26 (as stated): two distinct nodes with positive weights added to an
\* empty ring in either order leave the same ring sequence and the same
\* digest-to-node mapping, hence the same GetNode result for every key.
C26_AddOrderIndependent ==
    ring = <<>> /\ nodes = <<>> =>
      \A x, y \in Nodes, wx, wy \in Weights :
        x # y =>
          /\ AddBoth(Heap, x, wx, y, wy).ring = AddBoth(Heap, y, wy, x, wx).ring
          /\ AddBoth(Heap, x, wx, y, wy).nodeMap = AddBoth(Heap, y, wy, x, wx).nodeMap

\* C26 (amended): when no candidate digest collides, adding two distinct
\* absent nodes with positive weights in either order, to the empty ring or
\* to any reachable ring, leaves the same ring sequence, digest-to-node
\* mapping and weight mapping, hence the same GetNode result for every key;
\* so any two orders of adding a set of nodes, which differ by exchanges of
\* neighbours, agree.
C26_AddOrderIndependentWithoutCollisions ==
    \A x, y \in Nodes, wx, wy \in Weights :
      /\ RingIsNew
      /\ x # y
      /\ x \notin DOMAIN nodes
      /\ y \notin DOMAIN nodes
      /\ CandidatesDoNotCollide(Heap, x, wx, y, wy)
      => /\ AddBoth(Heap, x, wx, y, wy) = AddBoth(Heap, y, wy, x, wx)
         /\ \A key \in Keys :
              GetNodeResult(AddBoth(Heap, x, wx, y, wy), key)
                = GetNodeResult(AddBoth(Heap, y, wy, x, wx), key)

\* two nodes have been added to the empty ring without collisions and their
\* points interleave: the ring is the one the other order of the two adds
\* leaves
C26_Witness ==
    /\ IsAdd(last.op)
    /\ Cardinality(DOMAIN nodes) = 2
    /\ Len(ring) = 4
    /\ Cardinality(DOMAIN last.pre.nodes) = 1
    /\ \A n \in DOMAIN nodes : AddedWithoutCollision(Heap, n)
    /\ nodeMap[ring[1]] # nodeMap[ring[2]]
    /\ nodeMap[ring[2]] # nodeMap[ring[3]]
    /\ \E y \in DOMAIN last.pre.nodes :
         Heap = AddBoth(EmptyHeap, last.n, nodes[last.n], y, nodes[y])

\* a thread is in a call: it has entered a method and not yet returned
InCall(t) == thr[t].pc # "idle"

\* C27: no call asks for the lock while holding it (AddNode goes through
\* the one Lock of AddNodeWeighted), a call that has returned holds the lock
\* neither for writing nor for reading, and, the goroutines being scheduled
\* fairly, every call of AddNode, AddNodeWeighted, RemoveNode, GetNode and
\* GetNodes that has been entered gets the lock and returns: no state is a
\* deadlock.
C27_EveryCallReturns ==
    /\ [](\A t \in Threads :
            /\ thr[t].pc \in {"aw_lock", "rm_lock", "gn_rlock", "gs_rlock"} =>
                 mu.writer # t /\ t \notin mu.readers
            /\ ~InCall(t) => mu.writer # t /\ t \notin mu.readers)
    /\ \A t \in Threads : InCall(t) ~> ~InCall(t)

\* ts1 is before ts2 in the lexicographic order on (Physical, Logical)
TimestampLess(ts1, ts2) ==
    \/ ts1.Physical < ts2.Physical
    \/ ts1.Physical = ts2.Physical /\ ts1.Logical < ts2.Logical

\* C28: on one Clock every Timestamp that Now returns is strictly greater,
\* in the lexicographic order on (Physical, Logical), than every Timestamp
\* that Now returned before, whatever Now and Update calls are made and
\* whatever the wall clock reads.
C28_NowStrictlyIncreasing ==
    \A i, j \in DOMAIN issued :
      i < j => TimestampLess(issued[i], issued[j])

\* every replica has applied every write
AllApplied == \A r \in Stores : pending[r] = {}

\* C29: Store replicas that have applied the same set of timestamped values,
\* in whatever orders, hold the same value for every key.
C29_ReplicasConverge ==
    AllApplied => \A r1, r2 \in Stores : storeData[r1] = storeData[r2]

====
